---- MODULE Spec2Model ----
(***************************************************************************)
(* StreamVM (src/streamvm.py): a stack machine with a two-pass assembler   *)
(* (load_program), a fetch-decode-execute interpreter (step) and a run     *)
(* loop with a step limit (run).  The host drives one VM object through    *)
(* load_program / step / run calls and may catch the exceptions they       *)
(* raise; the VM object keeps whatever state the raising call left.        *)
(***************************************************************************)
EXTENDS Integers, Sequences, FiniteSets, TLC

(***************************************************************************)
(* Bounds of the exploration.                                              *)
(***************************************************************************)
MaxSteps == 9   \* host stops calling step() once steps reaches this bound
MaxRun == 9     \* largest max_steps argument the host passes to run()

(***************************************************************************)
(* Program constants.                                                      *)
(***************************************************************************)
MemSize == 256
VideoDuration == 180
HaltNotice == "[VM] Execucao finalizada"

(***************************************************************************)
(* Tokens.  A token is a string; str.upper() and int() are modelled by     *)
(* their graphs over the tokens that occur in the programs explored.       *)
(***************************************************************************)
UpperTable ==
  [t \in {"r0", "r1", "pos", "speed", "foo", "duration", "push", "halt"} |->
     CASE t = "r0" -> "R0"
       [] t = "r1" -> "R1"
       [] t = "pos" -> "POS"
       [] t = "speed" -> "SPEED"
       [] t = "foo" -> "FOO"
       [] t = "duration" -> "DURATION"
       [] t = "push" -> "PUSH"
       [] t = "halt" -> "HALT"]

\* str.upper(): tokens outside the table are already upper case (or digits)
Upper(t) == IF t \in DOMAIN UpperTable THEN UpperTable[t] ELSE t

IntTable ==
  [t \in {"0", "1", "2", "3", "4", "5", "10", "20", "30", "50", "100",
          "255", "256", "-1", "-2", "-256", "-257"} |->
     CASE t = "0" -> 0
       [] t = "1" -> 1
       [] t = "2" -> 2
       [] t = "3" -> 3
       [] t = "4" -> 4
       [] t = "5" -> 5
       [] t = "10" -> 10
       [] t = "20" -> 20
       [] t = "30" -> 30
       [] t = "50" -> 50
       [] t = "100" -> 100
       [] t = "255" -> 255
       [] t = "256" -> 256
       [] t = "-1" -> -1
       [] t = "-2" -> -2
       [] t = "-256" -> -256
       [] t = "-257" -> -257]

\* int(t) succeeds exactly on signed decimal literals
IsInt(t) == t \in DOMAIN IntTable
ToInt(t) == IntTable[t]

(***************************************************************************)
(* Source text.  A source is the sequence of its lines; a line is given by *)
(* what `raw.split(';',1)[0].split('#',1)[0].strip()` leaves of it:        *)
(*   blank  - the stripped line is empty                                   *)
(*   colon  - it ends with ':'                                             *)
(*   label  - for a colon line, line[:-1].strip()                          *)
(*   toks   - otherwise, line.replace(',',' ').split(); a quoted operand   *)
(*            is one token, without its quotes                             *)
(***************************************************************************)
BlankLine == [blank |-> TRUE, colon |-> FALSE, label |-> "", toks |-> <<>>]
LabelLine(name) == [blank |-> FALSE, colon |-> TRUE, label |-> name, toks |-> <<>>]
InstrLine(toks) == [blank |-> FALSE, colon |-> FALSE, label |-> "", toks |-> toks]
\* a line holding only commas: not blank, but it splits into no token
CommaLine == InstrLine(<<>>)

\* Instr(op, args) of the source
Instr(op, args) == [op |-> op, args |-> args]

(***************************************************************************)
(* The sources the host loads.                                             *)
(***************************************************************************)
\* DEMO_SIMPLE
DEMO_SIMPLE ==
  << BlankLine,
     InstrLine(<<"OPEN", "Trailer 1">>),
     InstrLine(<<"PLAY", "1">>),
     InstrLine(<<"WAIT", "5">>),
     InstrLine(<<"PAUSE">>),
     InstrLine(<<"HALT">>) >>

\* PUSH 3 / POP r0, then falls off the end
SrcSetR0 == << InstrLine(<<"push", "3">>), InstrLine(<<"POP", "r0">>) >>

\* label: DECJZ R0 end / GOTO label / end:
SrcDecjzLoop ==
  << LabelLine("label"),
     InstrLine(<<"DECJZ", "R0", "end">>),
     InstrLine(<<"GOTO", "label">>),
     LabelLine("end") >>

\* loop: GOTO loop  (never terminates)
SrcSpin == << LabelLine("loop"), InstrLine(<<"GOTO", "loop">>) >>

\* PUSH 1 / PUSH 0 / DIV / HALT
SrcDivZero ==
  << InstrLine(<<"PUSH", "1">>), InstrLine(<<"PUSH", "0">>),
     InstrLine(<<"DIV">>), InstrLine(<<"HALT">>) >>

\* the empty source
SrcEmpty == << >>

\* one failing instruction each
SrcPopEmpty == << InstrLine(<<"POP", "R1">>) >>
SrcStoreEmpty == << InstrLine(<<"STORE", "0">>) >>
SrcPrintEmpty == << InstrLine(<<"PRINT">>) >>
SrcPlay == << InstrLine(<<"PLAY">>) >>
SrcGotoMissing == << InstrLine(<<"PUSH", "2">>), InstrLine(<<"GOTO", "nowhere">>) >>
SrcUnknownOp == << InstrLine(<<"FROB">>), InstrLine(<<"halt">>) >>
SrcBadOperand == << InstrLine(<<"PUSH", "xyz">>) >>
SrcAddShort == << InstrLine(<<"PUSH", "2">>), InstrLine(<<"ADD">>) >>

\* sources load_program rejects
SrcDupLabel ==
  << InstrLine(<<"PUSH", "1">>), LabelLine("end"),
     InstrLine(<<"HALT">>), LabelLine("end") >>
SrcEmptyLabel == << InstrLine(<<"PUSH", "1">>), LabelLine("") >>
\* GOTO end / , / PUSH 1 / end:
SrcCommaLine ==
  << InstrLine(<<"GOTO", "end">>), CommaLine,
     InstrLine(<<"PUSH", "1">>), LabelLine("end") >>

Sources ==
  << DEMO_SIMPLE, SrcSetR0, SrcDecjzLoop, SrcSpin, SrcDivZero, SrcEmpty,
     SrcPopEmpty, SrcStoreEmpty, SrcPrintEmpty, SrcPlay, SrcGotoMissing,
     SrcUnknownOp, SrcBadOperand, SrcAddShort,
     SrcDupLabel, SrcEmptyLabel, SrcCommaLine >>

(***************************************************************************)
(* The VM object (StreamVM.__init__) and the host's view of the last call. *)
(***************************************************************************)
VARIABLES
  registers,     \* name -> int; the key set can grow (dict)
  sensors,       \* DURATION, IS_PLAYING, ENDED
  memory,        \* 0..MemSize-1 -> int
  stack,         \* operand stack, top is the last element
  video_title,
  video_loaded,
  program,       \* sequence of Instr; program[pc] of the source is program[pc+1]
  labels,        \* label name -> instruction index (dict)
  pc,
  halted,
  steps,
  out,           \* lines printed since the last load_program
  call,          \* the last call of the host: [op, arg]
  err            \* how that call ended: "ok" or the error it raised

vars == << registers, sensors, memory, stack, video_title, video_loaded,
           program, labels, pc, halted, steps, out, call, err >>

\* the VM object as one value
VM ==
  [ registers |-> registers, sensors |-> sensors, memory |-> memory,
    stack |-> stack, video_title |-> video_title, video_loaded |-> video_loaded,
    program |-> program, labels |-> labels, pc |-> pc, halted |-> halted,
    steps |-> steps, out |-> out ]

EmptyDict == [k \in {} |-> 0]

\* d[k] = v of a Python dict: replaces the value or adds the key
DictSet(d, k, v) == [x \in DOMAIN d \cup {k} |-> IF x = k THEN v ELSE d[x]]

Init ==
  /\ registers = [r \in {"POS", "SPEED", "R0", "R1"} |-> IF r = "SPEED" THEN 1 ELSE 0]
  /\ sensors = [s \in {"DURATION", "IS_PLAYING", "ENDED"} |-> 0]
  /\ memory = [a \in 0..(MemSize - 1) |-> 0]
  /\ stack = << >>
  /\ video_title = ""
  /\ video_loaded = FALSE
  /\ program = << >>
  /\ labels = EmptyDict
  /\ pc = 0
  /\ halted = FALSE
  /\ steps = 0
  /\ out = << >>
  /\ call = [op |-> "init", arg |-> 0]
  /\ err = "ok"

\* a call's outcome: the VM it leaves and the error it raised ("ok" if none)
Ret(vm, e) == [vm |-> vm, err |-> e]

(***************************************************************************)
(* load_program                                                            *)
(***************************************************************************)
\* first pass: collect the labels of lines[i..]; idx counts instruction lines
RECURSIVE Pass1(_, _, _, _)
Pass1(lines, i, idx, labs) ==
  IF i > Len(lines) THEN [labels |-> labs, err |-> "ok"]
  ELSE LET line == lines[i] IN
    IF line.blank THEN Pass1(lines, i + 1, idx, labs)
    ELSE IF line.colon THEN
      IF line.label = "" THEN [labels |-> labs, err |-> "EmptyLabel"]
      ELSE IF line.label \in DOMAIN labs THEN [labels |-> labs, err |-> "DuplicateLabel"]
      ELSE Pass1(lines, i + 1, idx, DictSet(labs, line.label, idx))
    ELSE Pass1(lines, i + 1, idx + 1, labs)

\* second pass: parse the instruction lines of lines[i..] and append them
RECURSIVE Pass2(_, _, _)
Pass2(lines, i, prog) ==
  IF i > Len(lines) THEN [program |-> prog, err |-> "ok"]
  ELSE LET line == lines[i] IN
    IF line.blank \/ line.colon THEN Pass2(lines, i + 1, prog)
    ELSE IF Len(line.toks) = 0 THEN [program |-> prog, err |-> "IndexError"]  \* tokens[0]
    ELSE Pass2(lines, i + 1,
               Append(prog, Instr(Upper(Head(line.toks)), Tail(line.toks))))

\* variant: a reload that also puts the registers back to their initial values
LoadResetRegisters(vm) ==
  [vm EXCEPT !.program = << >>, !.labels = EmptyDict, !.stack = << >>,
             !.pc = 0, !.halted = FALSE, !.steps = 0,
             !.registers = [r \in {"POS", "SPEED", "R0", "R1"} |-> IF r = "SPEED" THEN 1 ELSE 0]]

\* variant: the old program is not cleared before the passes
LoadResetKeepsProgram(vm) ==
  [vm EXCEPT !.labels = EmptyDict, !.stack = << >>,
             !.pc = 0, !.halted = FALSE, !.steps = 0]

\* the resets load_program starts with
LoadReset(vm) ==
  [vm EXCEPT !.program = << >>, !.labels = EmptyDict, !.stack = << >>,
             !.pc = 0, !.halted = FALSE, !.steps = 0]

load_program(vm, source) ==
  LET vm0 == LoadReset(vm)
      p1 == Pass1(source, 1, 0, vm0.labels)
      vm1 == [vm0 EXCEPT !.labels = p1.labels]
      p2 == Pass2(source, 1, vm1.program)
  IN IF p1.err # "ok" THEN Ret(vm1, p1.err)
     ELSE Ret([vm1 EXCEPT !.program = p2.program], p2.err)

(***************************************************************************)
(* step: helpers                                                           *)
(***************************************************************************)
Top(vm) == vm.stack[Len(vm.stack)]
Pop(vm) == [vm EXCEPT !.stack = SubSeq(@, 1, Len(@) - 1)]
Push(vm, v) == [vm EXCEPT !.stack = Append(@, v)]
Advance(vm) == [vm EXCEPT !.pc = @ + 1]
SetReg(vm, r, v) == [vm EXCEPT !.registers = DictSet(@, r, v)]
SetSensor(vm, s, v) == [vm EXCEPT !.sensors = [@ EXCEPT ![s] = v]]
\* print(...): one printed line, as <<kind, text, number, number>>
Emit(vm, kind, text, n1, n2) == [vm EXCEPT !.out = Append(@, <<kind, text, n1, n2>>)]

\* the literal-or-register operand of PUSH, SEEK, FORWARD, REWIND and WAIT
Resolve(vm, arg) ==
  IF Upper(arg) \in DOMAIN vm.registers
  THEN [err |-> "ok", val |-> vm.registers[Upper(arg)]]
  ELSE IF IsInt(arg) THEN [err |-> "ok", val |-> ToInt(arg)]
  ELSE [err |-> "BadOperand", val |-> 0]

\* Python's a // b
FloorDiv(a, b) == IF b > 0 THEN a \div b ELSE (0 - a) \div (0 - b)

\* list indexing self.memory[addr]: negative addresses count from the end
MemIndexOk(addr) == (0 - MemSize) <= addr /\ addr < MemSize
MemIndex(addr) == IF addr < 0 THEN addr + MemSize ELSE addr

Max(a, b) == IF a >= b THEN a ELSE b
BoolInt(b) == IF b THEN 1 ELSE 0

(***************************************************************************)
(* step: one operator per opcode; vm already has steps incremented         *)
(***************************************************************************)
ExecPUSH(vm, args) ==
  IF Len(args) = 0 THEN Ret(vm, "IndexError")
  ELSE LET r == Resolve(vm, args[1]) IN
    IF r.err # "ok" THEN Ret(vm, r.err)
    ELSE Ret(Advance(Push(vm, r.val)), "ok")

\* variant: POP of a sensor name writes the sensor cell
ExecPOPWritesSensor(vm, args) ==
  IF Len(vm.stack) = 0 THEN Ret(vm, "EmptyStack")
  ELSE IF Len(args) = 0 THEN Ret(vm, "IndexError")
  ELSE IF Upper(args[1]) \in DOMAIN vm.sensors
       THEN Ret(Advance(SetSensor(Pop(vm), Upper(args[1]), Top(vm))), "ok")
       ELSE Ret(Advance(SetReg(Pop(vm), Upper(args[1]), Top(vm))), "ok")

ExecPOP(vm, args) ==
  IF Len(vm.stack) = 0 THEN Ret(vm, "EmptyStack")
  ELSE IF Len(args) = 0 THEN Ret(vm, "IndexError")
  ELSE Ret(Advance(SetReg(Pop(vm), Upper(args[1]), Top(vm))), "ok")

ExecLOAD(vm, args) ==
  IF Len(args) = 0 THEN Ret(vm, "IndexError")
  ELSE IF ~IsInt(args[1]) THEN Ret(vm, "BadOperand")
  ELSE LET addr == ToInt(args[1]) IN
    IF ~MemIndexOk(addr) THEN Ret(vm, "IndexError")
    ELSE Ret(Advance(Push(vm, vm.memory[MemIndex(addr)])), "ok")

ExecSTORE(vm, args) ==
  IF Len(vm.stack) = 0 THEN Ret(vm, "EmptyStack")
  ELSE IF Len(args) = 0 THEN Ret(vm, "IndexError")
  ELSE IF ~IsInt(args[1]) THEN Ret(vm, "BadOperand")
  ELSE LET addr == ToInt(args[1]) IN
    \* the right-hand side stack.pop() runs before the store can fail
    IF ~MemIndexOk(addr) THEN Ret(Pop(vm), "IndexError")
    ELSE Ret(Advance([Pop(vm) EXCEPT !.memory = [@ EXCEPT ![MemIndex(addr)] = Top(vm)]]), "ok")

\* the value ADD, SUB, MUL and the comparisons push for operands a, b
BinaryValue(op, a, b) ==
  CASE op = "ADD" -> a + b
    [] op = "SUB" -> a - b
    [] op = "MUL" -> a * b
    [] op = "EQ" -> BoolInt(a = b)
    [] op = "NE" -> BoolInt(a # b)
    [] op = "LT" -> BoolInt(a < b)
    [] op = "LE" -> BoolInt(a <= b)
    [] op = "GT" -> BoolInt(a > b)
    [] op = "GE" -> BoolInt(a >= b)

\* b = pop(); a = pop(); push(a op b)
ExecBinary(vm, op) ==
  IF Len(vm.stack) = 0 THEN Ret(vm, "IndexError")
  ELSE IF Len(vm.stack) = 1 THEN Ret(Pop(vm), "IndexError")
  ELSE LET b == Top(vm)
           a == Top(Pop(vm))
       IN Ret(Advance(Push(Pop(Pop(vm)), BinaryValue(op, a, b))), "ok")

\* variant: the divisor is tested before anything is popped
ExecDIVTestsFirst(vm) ==
  IF Len(vm.stack) = 0 THEN Ret(vm, "IndexError")
  ELSE IF Len(vm.stack) = 1 THEN Ret(Pop(vm), "IndexError")
  ELSE LET b == Top(vm)
           a == Top(Pop(vm))
       IN IF b = 0 THEN Ret(vm, "DivZero")
          ELSE Ret(Advance(Push(Pop(Pop(vm)), FloorDiv(a, b))), "ok")

ExecDIV(vm) ==
  IF Len(vm.stack) = 0 THEN Ret(vm, "IndexError")
  ELSE IF Len(vm.stack) = 1 THEN Ret(Pop(vm), "IndexError")
  ELSE LET b == Top(vm)
           a == Top(Pop(vm))
       IN IF b = 0 THEN Ret(Pop(Pop(vm)), "DivZero")
          ELSE Ret(Advance(Push(Pop(Pop(vm)), FloorDiv(a, b))), "ok")

ExecNEG(vm) ==
  IF Len(vm.stack) = 0 THEN Ret(vm, "IndexError")
  ELSE Ret(Advance(Push(Pop(vm), 0 - Top(vm))), "ok")

\* pc = labels[label], after the lookup check
Jump(vm, label) ==
  IF label \notin DOMAIN vm.labels THEN Ret(vm, "UnknownLabel")
  ELSE Ret([vm EXCEPT !.pc = vm.labels[label]], "ok")

ExecGOTO(vm, args) ==
  IF Len(args) = 0 THEN Ret(vm, "IndexError")
  ELSE Jump(vm, args[1])

\* variant: the label is looked up before the popped value is tested
ExecJUMPLooksUpFirst(vm, args, onZero) ==
  IF Len(args) = 0 THEN Ret(vm, "IndexError")
  ELSE IF Len(vm.stack) = 0 THEN Ret(vm, "IndexError")
  ELSE IF args[1] \notin DOMAIN vm.labels THEN Ret(Pop(vm), "UnknownLabel")
  ELSE IF (Top(vm) = 0) = onZero THEN Jump(Pop(vm), args[1])
  ELSE Ret(Advance(Pop(vm)), "ok")

\* JUMPZ (onZero) and JUMPI (~onZero): the value is popped in every case
ExecJUMP(vm, args, onZero) ==
  IF Len(args) = 0 THEN Ret(vm, "IndexError")
  ELSE IF Len(vm.stack) = 0 THEN Ret(vm, "IndexError")
  ELSE IF (Top(vm) = 0) = onZero THEN Jump(Pop(vm), args[1])
  ELSE Ret(Advance(Pop(vm)), "ok")

\* variant: decrement first, jump as soon as the register reaches zero
ExecDECJZJumpsAtZero(vm, args) ==
  IF Len(args) < 2 THEN Ret(vm, "IndexError")
  ELSE LET reg == Upper(args[1]) IN
    IF reg \notin DOMAIN vm.registers THEN Ret(vm, "KeyError")
    ELSE IF vm.registers[reg] <= 1 THEN Jump(SetReg(vm, reg, 0), args[2])
    ELSE Ret(Advance(SetReg(vm, reg, vm.registers[reg] - 1)), "ok")

ExecDECJZ(vm, args) ==
  IF Len(args) < 2 THEN Ret(vm, "IndexError")
  ELSE LET reg == Upper(args[1]) IN
    IF reg \notin DOMAIN vm.registers THEN Ret(vm, "KeyError")
    ELSE IF vm.registers[reg] = 0 THEN Jump(vm, args[2])
    ELSE Ret(Advance(SetReg(vm, reg, vm.registers[reg] - 1)), "ok")

ExecOPEN(vm, args) ==
  IF Len(args) = 0 THEN Ret(vm, "IndexError")
  ELSE LET v1 == [vm EXCEPT !.video_title = args[1], !.video_loaded = TRUE]
           v2 == SetSensor(SetSensor(SetSensor(v1, "DURATION", VideoDuration),
                                     "IS_PLAYING", 0), "ENDED", 0)
           v3 == SetReg(v2, "POS", 0)
       IN Ret(Advance(Emit(v3, "open", args[1], 0, 0)), "ok")

\* variant: PLAY starts the video over, clearing ENDED
ExecPLAYClearsEnded(vm, args) ==
  IF ~vm.video_loaded THEN Ret(vm, "NoVideo")
  ELSE IF Len(args) > 0 /\ ~IsInt(args[1]) THEN Ret(vm, "BadOperand")
  ELSE LET speed == IF Len(args) > 0 THEN ToInt(args[1]) ELSE 1
           v1 == SetSensor(SetSensor(SetReg(vm, "SPEED", speed), "IS_PLAYING", 1), "ENDED", 0)
       IN Ret(Advance(Emit(v1, "play", "", speed, 0)), "ok")

\* variant: PLAY does not ask for a loaded video
ExecPLAYUnguarded(vm, args) ==
  IF Len(args) > 0 /\ ~IsInt(args[1]) THEN Ret(vm, "BadOperand")
  ELSE LET speed == IF Len(args) > 0 THEN ToInt(args[1]) ELSE 1
           v1 == SetSensor(SetReg(vm, "SPEED", speed), "IS_PLAYING", 1)
       IN Ret(Advance(Emit(v1, "play", "", speed, 0)), "ok")

\* variant: the speed operand is a literal or a register
ExecPLAYResolves(vm, args) ==
  IF ~vm.video_loaded THEN Ret(vm, "NoVideo")
  ELSE LET r == IF Len(args) > 0 THEN Resolve(vm, args[1]) ELSE [err |-> "ok", val |-> 1] IN
    IF r.err # "ok" THEN Ret(vm, r.err)
    ELSE LET v1 == SetSensor(SetReg(vm, "SPEED", r.val), "IS_PLAYING", 1)
         IN Ret(Advance(Emit(v1, "play", "", r.val, 0)), "ok")

ExecPLAY(vm, args) ==
  IF ~vm.video_loaded THEN Ret(vm, "NoVideo")
  ELSE IF Len(args) > 0 /\ ~IsInt(args[1]) THEN Ret(vm, "BadOperand")  \* int(args[0])
  ELSE LET speed == IF Len(args) > 0 THEN ToInt(args[1]) ELSE 1
           v1 == SetSensor(SetReg(vm, "SPEED", speed), "IS_PLAYING", 1)
       IN Ret(Advance(Emit(v1, "play", "", speed, 0)), "ok")

ExecPAUSE(vm) ==
  LET v1 == SetSensor(vm, "IS_PLAYING", 0)
  IN Ret(Advance(Emit(v1, "pause", "", v1.registers["POS"], 0)), "ok")

ExecSTOP(vm) ==
  LET v1 == SetReg(SetSensor(vm, "IS_PLAYING", 0), "POS", 0)
  IN Ret(Advance(Emit(v1, "stop", "", 0, 0)), "ok")

ExecSEEK(vm, args) ==
  IF Len(args) = 0 THEN Ret(vm, "IndexError")
  ELSE LET r == Resolve(vm, args[1]) IN
    IF r.err # "ok" THEN Ret(vm, r.err)
    ELSE Ret(Advance(Emit(SetReg(vm, "POS", r.val), "seek", "", r.val, 0)), "ok")

ExecFORWARD(vm, args) ==
  IF Len(args) = 0 THEN Ret(vm, "IndexError")
  ELSE LET r == Resolve(vm, args[1]) IN
    IF r.err # "ok" THEN Ret(vm, r.err)
    ELSE LET v1 == SetReg(vm, "POS", vm.registers["POS"] + r.val)
         IN Ret(Advance(Emit(v1, "forward", "", r.val, v1.registers["POS"])), "ok")

ExecREWIND(vm, args) ==
  IF Len(args) = 0 THEN Ret(vm, "IndexError")
  ELSE LET r == Resolve(vm, args[1]) IN
    IF r.err # "ok" THEN Ret(vm, r.err)
    ELSE LET v1 == SetReg(vm, "POS", Max(0, vm.registers["POS"] - r.val))
         IN Ret(Advance(Emit(v1, "rewind", "", r.val, v1.registers["POS"])), "ok")

\* variant: the position advances by the waited time, whatever the speed
ExecWAITIgnoresSpeed(vm, args) ==
  IF Len(args) = 0 THEN Ret(vm, "IndexError")
  ELSE LET r == Resolve(vm, args[1]) IN
    IF r.err # "ok" THEN Ret(vm, r.err)
    ELSE LET moved == SetReg(vm, "POS", vm.registers["POS"] + r.val)
             ended == SetSensor(SetSensor(SetReg(moved, "POS", moved.sensors["DURATION"]),
                                          "ENDED", 1), "IS_PLAYING", 0)
             v1 == IF vm.sensors["IS_PLAYING"] = 0 THEN vm
                   ELSE IF moved.registers["POS"] >= moved.sensors["DURATION"] THEN ended
                   ELSE moved
         IN Ret(Advance(Emit(v1, "wait", "", r.val, v1.registers["POS"])), "ok")

ExecWAIT(vm, args) ==
  IF Len(args) = 0 THEN Ret(vm, "IndexError")
  ELSE LET r == Resolve(vm, args[1]) IN
    IF r.err # "ok" THEN Ret(vm, r.err)
    ELSE LET moved == SetReg(vm, "POS", vm.registers["POS"] + r.val * vm.registers["SPEED"])
             ended == SetSensor(SetSensor(SetReg(moved, "POS", moved.sensors["DURATION"]),
                                          "ENDED", 1), "IS_PLAYING", 0)
             v1 == IF vm.sensors["IS_PLAYING"] = 0 THEN vm
                   ELSE IF moved.registers["POS"] >= moved.sensors["DURATION"] THEN ended
                   ELSE moved
         IN Ret(Advance(Emit(v1, "wait", "", r.val, v1.registers["POS"])), "ok")

ExecGET_POS(vm) == Ret(Advance(Push(vm, vm.registers["POS"])), "ok")
ExecGET_DUR(vm) == Ret(Advance(Push(vm, vm.sensors["DURATION"])), "ok")
ExecGET_ENDED(vm) == Ret(Advance(Push(vm, vm.sensors["ENDED"])), "ok")
ExecGET_PLAYING(vm) == Ret(Advance(Push(vm, vm.sensors["IS_PLAYING"])), "ok")

\* variant: PRINT shows the top of the stack without popping it
ExecPRINTKeepsTop(vm) ==
  IF Len(vm.stack) = 0 THEN Ret(vm, "EmptyStack")
  ELSE Ret(Advance(Emit(vm, "int", "", Top(vm), 0)), "ok")

ExecPRINT(vm) ==
  IF Len(vm.stack) = 0 THEN Ret(vm, "EmptyStack")
  ELSE Ret(Advance(Emit(Pop(vm), "int", "", Top(vm), 0)), "ok")

ExecPRINTS(vm, args) ==
  IF Len(args) = 0 THEN Ret(vm, "IndexError")
  ELSE Ret(Advance(Emit(vm, "str", args[1], 0, 0)), "ok")

\* HALT leaves pc where it is
ExecHALT(vm) == Ret([Emit(vm, "halt", HaltNotice, 0, 0) EXCEPT !.halted = TRUE], "ok")

\* the if/elif chain on instr.op
Dispatch(vm, op, args) ==
  CASE op = "PUSH" -> ExecPUSH(vm, args)
    [] op = "POP" -> ExecPOP(vm, args)
    [] op = "LOAD" -> ExecLOAD(vm, args)
    [] op = "STORE" -> ExecSTORE(vm, args)
    [] op = "ADD" -> ExecBinary(vm, "ADD")
    [] op = "SUB" -> ExecBinary(vm, "SUB")
    [] op = "MUL" -> ExecBinary(vm, "MUL")
    [] op = "DIV" -> ExecDIV(vm)
    [] op = "NEG" -> ExecNEG(vm)
    [] op = "EQ" -> ExecBinary(vm, "EQ")
    [] op = "NE" -> ExecBinary(vm, "NE")
    [] op = "LT" -> ExecBinary(vm, "LT")
    [] op = "LE" -> ExecBinary(vm, "LE")
    [] op = "GT" -> ExecBinary(vm, "GT")
    [] op = "GE" -> ExecBinary(vm, "GE")
    [] op = "GOTO" -> ExecGOTO(vm, args)
    [] op = "JUMPZ" -> ExecJUMP(vm, args, TRUE)
    [] op = "JUMPI" -> ExecJUMP(vm, args, FALSE)
    [] op = "DECJZ" -> ExecDECJZ(vm, args)
    [] op = "OPEN" -> ExecOPEN(vm, args)
    [] op = "PLAY" -> ExecPLAY(vm, args)
    [] op = "PAUSE" -> ExecPAUSE(vm)
    [] op = "STOP" -> ExecSTOP(vm)
    [] op = "SEEK" -> ExecSEEK(vm, args)
    [] op = "FORWARD" -> ExecFORWARD(vm, args)
    [] op = "REWIND" -> ExecREWIND(vm, args)
    [] op = "WAIT" -> ExecWAIT(vm, args)
    [] op = "GET_POS" -> ExecGET_POS(vm)
    [] op = "GET_DUR" -> ExecGET_DUR(vm)
    [] op = "GET_ENDED" -> ExecGET_ENDED(vm)
    [] op = "GET_PLAYING" -> ExecGET_PLAYING(vm)
    [] op = "PRINT" -> ExecPRINT(vm)
    [] op = "PRINTS" -> ExecPRINTS(vm, args)
    [] op = "HALT" -> ExecHALT(vm)
    [] OTHER -> Ret(vm, "UnknownOpcode")

(***************************************************************************)
(* step and run                                                            *)
(***************************************************************************)
\* the second pre-step check passes: an instruction will be fetched
PcInRange(vm) == 0 <= vm.pc /\ vm.pc < Len(vm.program)

\* variant: steps is incremented after the dispatch, so only when it returns
FetchCountsOnReturn(vm) ==
  LET instr == vm.program[vm.pc + 1]
      r == Dispatch(vm, instr.op, instr.args)
  IN IF r.err # "ok" THEN r ELSE Ret([r.vm EXCEPT !.steps = @ + 1], "ok")

\* variant: an instruction that raises halts the machine
FetchHaltsOnError(vm) ==
  LET instr == vm.program[vm.pc + 1]
      r == Dispatch([vm EXCEPT !.steps = @ + 1], instr.op, instr.args)
  IN IF r.err # "ok" THEN Ret([r.vm EXCEPT !.halted = TRUE], r.err) ELSE r

\* instr = self.program[self.pc]; self.steps += 1; then the dispatch
Fetch(vm) ==
  LET instr == vm.program[vm.pc + 1]
  IN Dispatch([vm EXCEPT !.steps = @ + 1], instr.op, instr.args)

\* variant: no halted check before the fetch
stepIgnoresHalted(vm) ==
  IF ~PcInRange(vm) THEN Ret([vm EXCEPT !.halted = TRUE], "ok")
  ELSE Fetch(vm)

step(vm) ==
  IF vm.halted THEN Ret(vm, "ok")
  ELSE IF ~PcInRange(vm) THEN Ret([vm EXCEPT !.halted = TRUE], "ok")
  ELSE Fetch(vm)

\* variant: the limit test is off by one
LimitReachedLate(vm, max_steps) == vm.steps > max_steps

\* the limit test of run's loop, made before each step
LimitReached(vm, max_steps) == vm.steps >= max_steps

RECURSIVE run(_, _)
run(vm, max_steps) ==
  IF vm.halted THEN Ret(vm, "ok")
  ELSE IF LimitReached(vm, max_steps) THEN Ret(vm, "StepLimit")
  ELSE LET r == step(vm) IN
    IF r.err # "ok" THEN r ELSE run(r.vm, max_steps)

(***************************************************************************)
(* The host's calls.                                                       *)
(***************************************************************************)
\* the VM object after the call, and the error the host sees
Returns(r) ==
  /\ registers' = r.vm.registers
  /\ sensors' = r.vm.sensors
  /\ memory' = r.vm.memory
  /\ stack' = r.vm.stack
  /\ video_title' = r.vm.video_title
  /\ video_loaded' = r.vm.video_loaded
  /\ program' = r.vm.program
  /\ labels' = r.vm.labels
  /\ pc' = r.vm.pc
  /\ halted' = r.vm.halted
  /\ steps' = r.vm.steps
  /\ out' = r.vm.out
  /\ err' = r.err

\* vm.load_program(Sources[i]); the printed lines are collected per load
LoadProgramCall ==
  \E i \in 1..Len(Sources) :
    /\ call' = [op |-> "load_program", arg |-> i]
    /\ Returns(load_program([VM EXCEPT !.out = << >>], Sources[i]))

\* vm.step()
StepCall ==
  /\ (~halted /\ PcInRange(VM)) => steps < MaxSteps
  /\ call' = [op |-> "step", arg |-> 0]
  /\ Returns(step(VM))

\* vm.run(k)
RunCall ==
  \E k \in 0..MaxRun :
    /\ call' = [op |-> "run", arg |-> k]
    /\ Returns(run(VM, k))

Next == LoadProgramCall \/ StepCall \/ RunCall

Spec == Init /\ [][Next]_vars

(***************************************************************************)
(* The same host, with the bounds and the sources as parameters.           *)
(***************************************************************************)
\* vm.load_program(srcs[i])
LoadFrom(srcs) ==
  \E i \in 1..Len(srcs) :
    /\ call' = [op |-> "load_program", arg |-> i]
    /\ Returns(load_program([VM EXCEPT !.out = << >>], srcs[i]))

\* vm.step(), while fewer than n instructions were dispatched
StepWithin(n) ==
  /\ (~halted /\ PcInRange(VM)) => steps < n
  /\ call' = [op |-> "step", arg |-> 0]
  /\ Returns(step(VM))

\* vm.run(k) for a k up to n
RunWithin(n) ==
  \E k \in 0..n :
    /\ call' = [op |-> "run", arg |-> k]
    /\ Returns(run(VM, k))

(***************************************************************************)
(* The player: the streaming instructions.                                 *)
(***************************************************************************)
MaxStepsPlayer == 8
MaxRunPlayer == 3

\* OPEN "X" / PLAY 2 / WAIT 100 / PLAY / HALT
SrcPlayToEnd ==
  << InstrLine(<<"OPEN", "X">>), InstrLine(<<"PLAY", "2">>),
     InstrLine(<<"WAIT", "100">>), InstrLine(<<"PLAY">>), InstrLine(<<"HALT">>) >>

\* PUSH 3 / POP R0 / OPEN "X" / PLAY 2 / WAIT r0 / PAUSE / WAIT 5 / HALT
SrcWaitReg ==
  << InstrLine(<<"PUSH", "3">>), InstrLine(<<"POP", "R0">>),
     InstrLine(<<"OPEN", "X">>), InstrLine(<<"PLAY", "2">>),
     InstrLine(<<"WAIT", "r0">>), InstrLine(<<"PAUSE">>),
     InstrLine(<<"WAIT", "5">>), InstrLine(<<"HALT">>) >>

\* PLAY R0
SrcPlayReg == << InstrLine(<<"PLAY", "R0">>) >>

\* OPEN "x" / SEEK 10 / FORWARD 20 / REWIND 50 / STOP / HALT
SrcSeek ==
  << InstrLine(<<"OPEN", "x">>), InstrLine(<<"SEEK", "10">>),
     InstrLine(<<"FORWARD", "20">>), InstrLine(<<"REWIND", "50">>),
     InstrLine(<<"STOP">>), InstrLine(<<"HALT">>) >>

\* PUSH 1 / POP foo / PUSH 5 / POP duration / GET_DUR
SrcPopNames ==
  << InstrLine(<<"PUSH", "1">>), InstrLine(<<"POP", "foo">>),
     InstrLine(<<"PUSH", "5">>), InstrLine(<<"POP", "duration">>),
     InstrLine(<<"GET_DUR">>) >>

\* PUSH 5 / STORE -1 / LOAD -1 / LOAD 256
SrcMemNegative ==
  << InstrLine(<<"PUSH", "5">>), InstrLine(<<"STORE", "-1">>),
     InstrLine(<<"LOAD", "-1">>), InstrLine(<<"LOAD", "256">>) >>

\* PUSH 4 / STORE 256
SrcMemHigh == << InstrLine(<<"PUSH", "4">>), InstrLine(<<"STORE", "256">>) >>

\* PUSH 1 / JUMPZ nowhere / PUSH 0 / JUMPI nowhere / PUSH 0 / JUMPZ nowhere
SrcJumpzMissing ==
  << InstrLine(<<"PUSH", "1">>), InstrLine(<<"JUMPZ", "nowhere">>),
     InstrLine(<<"PUSH", "0">>), InstrLine(<<"JUMPI", "nowhere">>),
     InstrLine(<<"PUSH", "0">>), InstrLine(<<"JUMPZ", "nowhere">>) >>

\* PUSH 1 / JUMPI nowhere
SrcJumpiMissing == << InstrLine(<<"PUSH", "1">>), InstrLine(<<"JUMPI", "nowhere">>) >>

\* DECJZ R0 nowhere / DECJZ R1 nowhere
SrcDecjzMissing ==
  << InstrLine(<<"DECJZ", "R0", "nowhere">>), InstrLine(<<"DECJZ", "R1", "nowhere">>) >>

\* PUSH 0 / JUMPZ skip / FROB / skip: / PUSH 1 / JUMPI done / FROB / done: / HALT
SrcJumpTaken ==
  << InstrLine(<<"PUSH", "0">>), InstrLine(<<"JUMPZ", "skip">>), InstrLine(<<"FROB">>),
     LabelLine("skip"),
     InstrLine(<<"PUSH", "1">>), InstrLine(<<"JUMPI", "done">>), InstrLine(<<"FROB">>),
     LabelLine("done"), InstrLine(<<"HALT">>) >>

SourcesPlayer == << SrcPlayToEnd, SrcWaitReg, SrcPlayReg, SrcSeek, SrcPlay >>

NextPlayer ==
  LoadFrom(SourcesPlayer) \/ StepWithin(MaxStepsPlayer) \/ RunWithin(MaxRunPlayer)

SpecPlayer == Init /\ [][NextPlayer]_vars

(***************************************************************************)
(* Operands: register names, memory addresses and missing labels, on a VM  *)
(* that may also have played a video to its end.                           *)
(***************************************************************************)
\* GET_DUR / GET_PLAYING / GET_ENDED
SrcGetSensors ==
  << InstrLine(<<"GET_DUR">>), InstrLine(<<"GET_PLAYING">>), InstrLine(<<"GET_ENDED">>) >>

MaxStepsOperands == 6
MaxRunOperands == 3

SourcesOperands ==
  << SrcPopNames, SrcMemNegative, SrcMemHigh, SrcJumpzMissing, SrcJumpiMissing,
     SrcDecjzMissing, SrcJumpTaken, SrcSetR0, SrcPlayToEnd, SrcGotoMissing,
     SrcGetSensors >>

NextOperands ==
  LoadFrom(SourcesOperands) \/ StepWithin(MaxStepsOperands) \/ RunWithin(MaxRunOperands)

SpecOperands == Init /\ [][NextOperands]_vars

(***************************************************************************)
(* The countdown demo, run to its end.                                     *)
(***************************************************************************)
MaxStepsCountdown == 27
MaxRunCountdown == 27

\* DEMO_DECJZ
DEMO_DECJZ ==
  << BlankLine,
     BlankLine,                        \* a comment line
     InstrLine(<<"PUSH", "5">>),
     InstrLine(<<"POP", "R0">>),
     BlankLine,
     LabelLine("countdown"),
     InstrLine(<<"PUSH", "R0">>),
     InstrLine(<<"PRINT">>),
     InstrLine(<<"DECJZ", "R0", "done">>),
     InstrLine(<<"GOTO", "countdown">>),
     BlankLine,
     LabelLine("done"),
     InstrLine(<<"PRINTS", "Contagem finalizada!">>),
     InstrLine(<<"HALT">>) >>

SourcesCountdown == << DEMO_DECJZ >>

NextCountdown ==
  LoadFrom(SourcesCountdown) \/ StepWithin(MaxStepsCountdown) \/ RunWithin(MaxRunCountdown)

SpecCountdown == Init /\ [][NextCountdown]_vars

(***************************************************************************)
(* Properties.                                                             *)
(***************************************************************************)
\* the errors step() raises on purpose, by kind
RuntimeErrors ==
  {"EmptyStack", "DivZero", "NoVideo", "UnknownLabel", "UnknownOpcode", "BadOperand"}
\* the errors load_program raises on purpose
LoadErrors == {"EmptyLabel", "DuplicateLabel"}

\* the assembled forms of three of the sources
ProgDecjzLoop == << Instr("DECJZ", <<"R0", "end">>), Instr("GOTO", <<"label">>) >>
ProgSpin == << Instr("GOTO", <<"loop">>) >>
ProgDivZero ==
  << Instr("PUSH", <<"1">>), Instr("PUSH", <<"0">>), Instr("DIV", << >>), Instr("HALT", << >>) >>

\* the labels a source defines, and the number of its instruction lines
SourceLabels(src) == {src[i].label : i \in {j \in 1..Len(src) : src[j].colon}}
SourceInstrs(src) == Cardinality({j \in 1..Len(src) : ~src[j].blank /\ ~src[j].colon})

\* C1: a call of step() adds exactly one to steps when it fetches an
\* instruction (not halted, pc inside the program), whether or not the
\* instruction then raises, and leaves steps alone when it is pre-empted by
\* the halted check or by the pc-out-of-range auto-halt.
C1_StepCounts ==
  [][call'.op = "step" =>
       IF ~halted /\ 0 <= pc /\ pc < Len(program)
       THEN steps' = steps + 1
       ELSE steps' = steps]_vars

\* a step() whose instruction raised was counted
C1_Witness ==
  call.op = "step" /\ err = "EmptyStack" /\ steps = 1 /\ pc = 0 /\ ~halted

\* C2: run(max_steps) does not raise the step-limit error for a program whose
\* last instruction was dispatched as step N <= max_steps: when the limit
\* error is raised with steps = max_steps, an instruction is still to run.
C2_RunSucceedsAtBoundary ==
  (call.op = "run" /\ err = "StepLimit" /\ steps = call.arg /\ steps >= 1)
    => (0 <= pc /\ pc < Len(program))

\* C3: run(max_steps = k) on a freshly loaded VM (steps = 0) raises the step
\* limit only after exactly k dispatched instructions, with halted false;
\* and on the program that never terminates it does raise it.
C3_StepLimitExact ==
  [][(call'.op = "run" /\ steps = 0) =>
       /\ err' = "StepLimit" => (steps' = call'.arg /\ ~halted')
       /\ (program = ProgSpin /\ "loop" \in DOMAIN labels) => err' = "StepLimit"]_vars

C3_Witness ==
  /\ call.op = "run" /\ call.arg = 3 /\ err = "StepLimit"
  /\ program = ProgSpin /\ steps = 3 /\ ~halted

\* C4: when an instruction raises a runtime error inside step(), halted is
\* still false, pc is still the index of the failing instruction, and the
\* instruction has been counted in steps.
C4_ErrorLeavesPc ==
  [][(call'.op = "step" /\ err' \in RuntimeErrors) =>
       /\ ~halted'
       /\ pc' = pc /\ 0 <= pc' /\ pc' < Len(program')
       /\ steps' = steps + 1]_vars

C4_Witness ==
  call.op = "step" /\ err = "UnknownLabel" /\ pc = 1 /\ steps = 2 /\ ~halted

\* C5 (as stated): DIV with divisor 0 fails with steps = 3 and pc = 2 on
\* PUSH 1 / PUSH 0 / DIV / HALT and the stack still holds both operands.
C5_StackKept ==
  [][(call'.op = "step" /\ err' = "DivZero") =>
       /\ pc' = pc /\ steps' = steps + 1
       /\ program = ProgDivZero => (steps' = 3 /\ pc' = 2)
       /\ stack' = stack]_vars

\* C5 (amended): DIV with divisor 0 fails with steps = 3 and pc = 2 on
\* PUSH 1 / PUSH 0 / DIV / HALT, and both operands have been popped: the
\* stack is its pre-DIV contents without the top two entries.
C5_StackPopped ==
  [][(call'.op = "step" /\ err' = "DivZero") =>
       /\ pc' = pc /\ steps' = steps + 1
       /\ program = ProgDivZero => (steps' = 3 /\ pc' = 2)
       /\ Len(stack) >= 2 /\ stack[Len(stack)] = 0
       /\ stack' = SubSeq(stack, 1, Len(stack) - 2)]_vars

C5_Witness ==
  /\ call.op = "step" /\ err = "DivZero" /\ program = ProgDivZero
  /\ steps = 3 /\ pc = 2 /\ stack = << >>

\* C6: load_program resets stack, pc, halted and steps, replaces program and
\* label table by those of the new source (nothing of the old ones is left),
\* and leaves registers, sensors, memory, video_title and video_loaded as
\* they were.
C6_LoadFrame ==
  [][call'.op = "load_program" =>
       /\ stack' = << >> /\ pc' = 0 /\ ~halted' /\ steps' = 0
       /\ DOMAIN labels' \subseteq SourceLabels(Sources[call'.arg])
       /\ Len(program') <= SourceInstrs(Sources[call'.arg])
       /\ err' = "ok" => /\ DOMAIN labels' = SourceLabels(Sources[call'.arg])
                         /\ Len(program') = SourceInstrs(Sources[call'.arg])
       /\ registers' = registers /\ sensors' = sensors /\ memory' = memory
       /\ video_title' = video_title /\ video_loaded' = video_loaded]_vars

\* a load that inherits registers, sensors and video state of an earlier run
C6_Witness ==
  /\ call.op = "load_program" /\ err = "ok" /\ program = ProgSpin
  /\ registers["R0"] = 3 /\ registers["POS"] = 5
  /\ video_loaded /\ sensors["DURATION"] = VideoDuration
  /\ steps = 0 /\ pc = 0 /\ ~halted /\ stack = << >>

\* C7: a load_program that fails with a load-time error (empty label,
\* duplicate label) leaves the VM with an empty program.
C7_FailedLoadEmptyProgram ==
  (call.op = "load_program" /\ err \in LoadErrors) => program = << >>

\* the duplicate label comes after two instruction lines
C7_Witness ==
  /\ call.op = "load_program" /\ err = "DuplicateLabel"
  /\ Sources[call.arg] = SrcDupLabel /\ program = << >> /\ "end" \in DOMAIN labels

\* C8: 0 <= pc <= len(program) in every state between calls; and a step()
\* taken with pc = len(program) and halted false sets halted and changes
\* nothing else.
C8_PcInBounds ==
  /\ [](0 <= pc /\ pc <= Len(program))
  /\ [][(call'.op = "step" /\ ~halted /\ pc = Len(program)) =>
          /\ halted'
          /\ UNCHANGED << registers, sensors, memory, stack, video_title,
                          video_loaded, program, labels, pc, steps >>]_vars

\* C9: once halted, a step() changes nothing and halted stays true.
C9_HaltedStepNoOp ==
  [][(halted /\ call'.op = "step") =>
       /\ halted'
       /\ UNCHANGED << registers, sensors, memory, stack, video_title,
                       video_loaded, program, labels, pc, steps, out >>]_vars

C9_Witness ==
  /\ halted /\ call.op = "step" /\ err = "ok"
  /\ pc < Len(program) /\ program[pc + 1].op = "HALT" /\ steps = Len(program)

\* where run() starts the loop "label: DECJZ R0 end / GOTO label / end:" on a
\* freshly loaded VM
FreshDecjzLoop ==
  /\ program = ProgDecjzLoop /\ DOMAIN labels = {"label", "end"}
  /\ steps = 0 /\ pc = 0 /\ ~halted /\ registers["R0"] >= 0

\* C10 (as stated): the loop reaches end after exactly R0 + 1 steps, R0 = 0.
C10_StepsR0Plus1 ==
  [][(call'.op = "run" /\ FreshDecjzLoop /\ call'.arg >= 2 * registers["R0"] + 1) =>
       /\ pc' = 2 /\ registers'["R0"] = 0
       /\ steps' = registers["R0"] + 1]_vars

\* C10 (amended): the loop reaches end after exactly 2 * R0 + 1 steps (R0 + 1
\* executions of DECJZ and R0 of GOTO), with R0 = 0.
C10_StepsTwiceR0Plus1 ==
  [][(call'.op = "run" /\ FreshDecjzLoop /\ call'.arg >= 2 * registers["R0"] + 1) =>
       /\ pc' = 2 /\ registers'["R0"] = 0
       /\ steps' = 2 * registers["R0"] + 1]_vars

C10_Witness ==
  /\ call.op = "run" /\ err = "ok" /\ program = ProgDecjzLoop
  /\ halted /\ pc = 2 /\ steps = 7 /\ registers["R0"] = 0

(***************************************************************************)
(* Properties of the streaming instructions and of the operands.           *)
(***************************************************************************)
\* the next step() fetches an instruction with opcode op
Fetching(op) ==
  ~halted /\ 0 <= pc /\ pc < Len(program) /\ program[pc + 1].op = op

\* the argument tokens of the instruction at pc
Args == program[pc + 1].args

\* the value of an operand token: the register it names once upper-cased,
\* otherwise the decimal integer it spells
Operand(tok) ==
  IF Upper(tok) \in DOMAIN registers THEN registers[Upper(tok)] ELSE ToInt(tok)

ProgWaitReg ==
  << Instr("PUSH", <<"3">>), Instr("POP", <<"R0">>), Instr("OPEN", <<"X">>),
     Instr("PLAY", <<"2">>), Instr("WAIT", <<"r0">>), Instr("PAUSE", << >>),
     Instr("WAIT", <<"5">>), Instr("HALT", << >>) >>

\* C11: WAIT t while playing sets POS to POS + t*SPEED; if that reaches
\* DURATION, POS = DURATION, ENDED = 1 and IS_PLAYING = 0, otherwise ENDED and
\* IS_PLAYING are unchanged.  WAIT t while not playing leaves POS, ENDED and
\* IS_PLAYING unchanged.  t is a literal or a register.
C11_WaitAdvances ==
  [][(call'.op = "step" /\ Fetching("WAIT") /\ err' = "ok") =>
       LET target == registers["POS"] + Operand(Args[1]) * registers["SPEED"]
       IN IF sensors["IS_PLAYING"] = 1
          THEN IF target >= sensors["DURATION"]
               THEN /\ registers'["POS"] = sensors["DURATION"]
                    /\ sensors'["ENDED"] = 1 /\ sensors'["IS_PLAYING"] = 0
               ELSE /\ registers'["POS"] = target
                    /\ sensors'["ENDED"] = sensors["ENDED"]
                    /\ sensors'["IS_PLAYING"] = 1
          ELSE /\ registers'["POS"] = registers["POS"]
               /\ sensors' = sensors]_vars

\* WAIT r0 has run with R0 = 3 at speed 2
C11_Witness ==
  /\ call.op = "step" /\ err = "ok" /\ program = ProgWaitReg /\ pc = 5
  /\ registers["POS"] = 6 /\ registers["SPEED"] = 2 /\ sensors["IS_PLAYING"] = 1

ProgCountdown ==
  << Instr("PUSH", <<"5">>), Instr("POP", <<"R0">>), Instr("PUSH", <<"R0">>),
     Instr("PRINT", << >>), Instr("DECJZ", <<"R0", "done">>),
     Instr("GOTO", <<"countdown">>), Instr("PRINTS", <<"Contagem finalizada!">>),
     Instr("HALT", << >>) >>

\* a line printed by PRINT or PRINTS
IsPrintLine(e) == e[1] \in {"int", "str"}

\* what PRINT and PRINTS emit over the whole countdown
CountdownPrints ==
  << <<"int", "", 5, 0>>, <<"int", "", 4, 0>>, <<"int", "", 3, 0>>,
     <<"int", "", 2, 0>>, <<"int", "", 1, 0>>, <<"int", "", 0, 0>>,
     <<"str", "Contagem finalizada!", 0, 0>> >>

\* C12: the countdown from 5 prints 5, 4, 3, 2, 1, 0 and then the string once,
\* in this order (every output so far is a prefix of it, the halt notice
\* of HALT coming last), and halts with R0 = 0 and an empty stack.
C12_CountdownOutput ==
  program = ProgCountdown =>
    /\ \E n \in 0..Len(CountdownPrints) :
         SelectSeq(out, IsPrintLine) = SubSeq(CountdownPrints, 1, n)
    /\ halted =>
         /\ SelectSeq(out, IsPrintLine) = CountdownPrints
         /\ out = Append(CountdownPrints, <<"halt", HaltNotice, 0, 0>>)
         /\ registers["R0"] = 0 /\ stack = << >>

C12_Witness ==
  /\ program = ProgCountdown /\ halted /\ steps = 27 /\ call.op = "run"
  /\ Len(out) = 8 /\ registers["R0"] = 0

\* C13: in every reachable state, also the one an aborted load_program leaves
\* behind, every value of the label table is an index in 0..len(program).
C13_LabelsInRange ==
  \A l \in DOMAIN labels : 0 <= labels[l] /\ labels[l] <= Len(program)

\* the next step() fetches a branch that can get as far as its label: it has
\* its operands, JUMPZ/JUMPI find a value to pop, DECJZ names a register
FetchingBranch ==
  /\ ~halted /\ 0 <= pc /\ pc < Len(program)
  /\ \/ program[pc + 1].op = "GOTO" /\ Len(Args) >= 1
     \/ program[pc + 1].op \in {"JUMPZ", "JUMPI"} /\ Len(Args) >= 1 /\ Len(stack) >= 1
     \/ program[pc + 1].op = "DECJZ" /\ Len(Args) >= 2 /\ Upper(Args[1]) \in DOMAIN registers

\* the label the branch at pc names
BranchLabel == IF program[pc + 1].op = "DECJZ" THEN Args[2] ELSE Args[1]

\* the branch at pc jumps
BranchTaken ==
  CASE program[pc + 1].op = "GOTO" -> TRUE
    [] program[pc + 1].op = "JUMPZ" -> stack[Len(stack)] = 0
    [] program[pc + 1].op = "JUMPI" -> stack[Len(stack)] # 0
    [] program[pc + 1].op = "DECJZ" -> registers[Upper(Args[1])] = 0

ProgJumpzMissing ==
  << Instr("PUSH", <<"1">>), Instr("JUMPZ", <<"nowhere">>), Instr("PUSH", <<"0">>),
     Instr("JUMPI", <<"nowhere">>), Instr("PUSH", <<"0">>), Instr("JUMPZ", <<"nowhere">>) >>

\* C14 (as stated): a branch whose label is not in the label table raises the
\* unknown-label error, whether or not the jump would be taken.
C14_MissingLabelAlwaysFails ==
  [][(call'.op = "step" /\ FetchingBranch /\ BranchLabel \notin DOMAIN labels) =>
       err' = "UnknownLabel"]_vars

\* C14 (amended): a branch whose label is not in the label table raises the
\* unknown-label error exactly when the jump is taken (GOTO always, JUMPZ on
\* a popped 0, JUMPI on a popped non-zero, DECJZ on R = 0); when it is not
\* taken the instruction completes and pc advances by one.
C14_MissingLabelFailsWhenTaken ==
  [][(call'.op = "step" /\ FetchingBranch /\ BranchLabel \notin DOMAIN labels) =>
       IF BranchTaken
       THEN err' = "UnknownLabel" /\ pc' = pc
       ELSE err' = "ok" /\ pc' = pc + 1]_vars

\* JUMPZ nowhere has passed over a popped 1
C14_Witness ==
  /\ call.op = "step" /\ err = "ok" /\ program = ProgJumpzMissing
  /\ pc = 2 /\ steps = 2 /\ stack = << >> /\ "nowhere" \notin DOMAIN labels

\* C15 (as stated): PLAY s with a video loaded sets SPEED to s resolved as
\* literal or register (1 when omitted) and IS_PLAYING to 1; with no video
\* it fails and changes neither.
C15_PlayResolvesOperand ==
  [][(call'.op = "step" /\ Fetching("PLAY")) =>
       IF video_loaded
       THEN /\ err' = "ok"
            /\ registers'["SPEED"] = (IF Len(Args) = 0 THEN 1 ELSE Operand(Args[1]))
            /\ sensors'["IS_PLAYING"] = 1
       ELSE /\ err' # "ok"
            /\ registers'["SPEED"] = registers["SPEED"]
            /\ sensors'["IS_PLAYING"] = sensors["IS_PLAYING"]]_vars

\* C15 (amended): PLAY s with a video loaded sets SPEED to the decimal integer
\* s (1 when omitted) and IS_PLAYING to 1; an s that is no decimal integer, a
\* register name included, fails as a malformed operand and changes neither;
\* with no video PLAY fails and changes neither.
C15_PlayTakesLiteral ==
  [][(call'.op = "step" /\ Fetching("PLAY")) =>
       IF video_loaded /\ (Len(Args) = 0 \/ IsInt(Args[1]))
       THEN /\ err' = "ok"
            /\ registers'["SPEED"] = (IF Len(Args) = 0 THEN 1 ELSE ToInt(Args[1]))
            /\ sensors'["IS_PLAYING"] = 1
       ELSE /\ err' = (IF video_loaded THEN "BadOperand" ELSE "NoVideo")
            /\ registers'["SPEED"] = registers["SPEED"]
            /\ sensors'["IS_PLAYING"] = sensors["IS_PLAYING"]]_vars

\* PLAY R0 has failed on a loaded video
C15_Witness ==
  /\ call.op = "step" /\ err = "BadOperand" /\ program = << Instr("PLAY", <<"R0">>) >>
  /\ video_loaded /\ pc = 0 /\ steps = 1 /\ registers["R0"] = 3

\* C16 (as stated): in every reachable state the register file maps exactly
\* the names POS, SPEED, R0 and R1.
C16_RegisterNamesFixed == DOMAIN registers = {"POS", "SPEED", "R0", "R1"}

StreamingOps == {"OPEN", "PLAY", "PAUSE", "STOP", "WAIT"}

FetchingStreaming == \E op \in StreamingOps : Fetching(op)

\* C17: load_program and every step that does not execute OPEN, PLAY, PAUSE,
\* STOP or WAIT (POP of a sensor name included) leave the sensor cells
\* unchanged, and GET_DUR, GET_PLAYING, GET_ENDED push the sensor's value.
C17_SensorsFrame ==
  [][/\ call'.op = "load_program" => sensors' = sensors
     /\ (call'.op = "step" /\ ~FetchingStreaming) => sensors' = sensors
     /\ (call'.op = "step" /\ Fetching("GET_DUR")) =>
          err' = "ok" /\ stack' = Append(stack, sensors'["DURATION"])
     /\ (call'.op = "step" /\ Fetching("GET_PLAYING")) =>
          err' = "ok" /\ stack' = Append(stack, sensors'["IS_PLAYING"])
     /\ (call'.op = "step" /\ Fetching("GET_ENDED")) =>
          err' = "ok" /\ stack' = Append(stack, sensors'["ENDED"])]_vars

\* POP duration has run with 5 on the stack, and GET_DUR after it pushed 0
C17_Witness ==
  /\ call.op = "step" /\ err = "ok" /\ pc = 5 /\ Len(program) = 5
  /\ program[4] = Instr("POP", <<"duration">>) /\ program[5] = Instr("GET_DUR", << >>)
  /\ "DURATION" \in DOMAIN registers /\ registers["DURATION"] = 5
  /\ sensors["DURATION"] = 0 /\ stack = <<0>>

\* the steps that have passed a video's end reach the sensor reads too
C17_WitnessEnded ==
  /\ call.op = "step" /\ err = "ok" /\ pc = 3
  /\ program[3] = Instr("GET_ENDED", << >>) /\ stack = <<VideoDuration, 0, 1>>

FetchingMemOutside ==
  /\ Fetching("LOAD") \/ Fetching("STORE")
  /\ Len(Args) >= 1 /\ IsInt(Args[1]) /\ ToInt(Args[1]) \notin 0..(MemSize - 1)

\* C18 (as stated): memory always has exactly 256 cells, and a LOAD n or
\* STORE n with n outside 0..255 leaves every cell and the stack unchanged.
C18_OutOfRangeNoAccess ==
  /\ [](DOMAIN memory = 0..(MemSize - 1))
  /\ [][(call'.op = "step" /\ FetchingMemOutside) =>
          memory' = memory /\ stack' = stack]_vars

\* the number of OPEN instructions that have printed their line
OpenCount(o) == Cardinality({i \in 1..Len(o) : o[i][1] = "open"})

ProgPlayToEnd ==
  << Instr("OPEN", <<"X">>), Instr("PLAY", <<"2">>), Instr("WAIT", <<"100">>),
     Instr("PLAY", << >>), Instr("HALT", << >>) >>

\* C19: ENDED = 1 is left only by a step or run that executes an OPEN (never
\* by another instruction or a reload); a PLAY that succeeds from Ended sets
\* IS_PLAYING = 1 and keeps ENDED = 1; OPEN from any state yields
\* video_loaded, DURATION = 180, IS_PLAYING = 0, ENDED = 0, POS = 0.
C19_EndedUntilOpen ==
  [][/\ (sensors["ENDED"] = 1 /\ sensors'["ENDED"] # 1) =>
          call'.op \in {"step", "run"} /\ OpenCount(out') > OpenCount(out)
     /\ (call'.op = "step" /\ sensors["ENDED"] = 1 /\ ~Fetching("OPEN")) =>
          sensors'["ENDED"] = 1
     /\ (call'.op = "step" /\ Fetching("PLAY") /\ sensors["ENDED"] = 1 /\ err' = "ok") =>
          sensors'["IS_PLAYING"] = 1 /\ sensors'["ENDED"] = 1
     /\ (call'.op = "step" /\ Fetching("OPEN") /\ Len(Args) >= 1) =>
          /\ err' = "ok" /\ video_loaded'
          /\ sensors'["DURATION"] = VideoDuration /\ sensors'["IS_PLAYING"] = 0
          /\ sensors'["ENDED"] = 0 /\ registers'["POS"] = 0]_vars

\* the PLAY after the video's end has run: playing again, still ended
C19_Witness ==
  /\ call.op = "step" /\ err = "ok" /\ program = ProgPlayToEnd /\ pc = 4 /\ steps = 4
  /\ sensors["ENDED"] = 1 /\ sensors["IS_PLAYING"] = 1 /\ registers["POS"] = VideoDuration

\* an OPEN has run on a VM whose previous video had ended
C19_WitnessReopen ==
  /\ call.op = "step" /\ err = "ok" /\ program = ProgPlayToEnd /\ pc = 1 /\ steps = 1
  /\ sensors["ENDED"] = 0 /\ sensors["IS_PLAYING"] = 0 /\ registers["SPEED"] = 1
  /\ registers["POS"] = 0 /\ video_loaded

PlaybackInv ==
  /\ (sensors["IS_PLAYING"] = 1 \/ sensors["ENDED"] = 1) =>
       video_loaded /\ sensors["DURATION"] = VideoDuration
  /\ sensors["DURATION"] = (IF video_loaded THEN VideoDuration ELSE 0)

\* C20: in every reachable state IS_PLAYING = 1 or ENDED = 1 implies a loaded
\* video and DURATION = 180; DURATION is 180 exactly when a video is loaded and
\* 0 otherwise; and video_loaded never returns to false.
C20_PlaybackInvariant ==
  /\ []PlaybackInv
  /\ [][video_loaded => video_loaded']_vars

\* a reload has kept an ended, playing video
C20_Witness ==
  /\ call.op = "load_program" /\ err = "ok" /\ video_loaded
  /\ sensors["ENDED"] = 1 /\ sensors["IS_PLAYING"] = 1
  /\ sensors["DURATION"] = VideoDuration /\ program = << Instr("PLAY", << >>) >>

====
